---- MODULE Spec2Model ----
(***************************************************************************)
(* A model of the parlay growable concurrent unordered_map:                *)
(*   - the map wrapper unordered_map_ (Find / Insert / Upsert / Remove,    *)
(*     size, clear) and the indirect entry layer (tagged pointers to heap  *)
(*     pairs, make_entry / retire_entry, the rehash post-mix);             *)
(*   - the bucket engine (immutable bucket lists published by CAS), the    *)
(*     cooperative migration Stable -> Busy -> Forwarded and the epoch     *)
(*     reclamation pool the wrapper is built on.                           *)
(***************************************************************************)
EXTENDS Integers, Sequences, FiniteSets, TLC

\* ------------------------------------------------------------------ bounds
MaxKey   == 2      \* keys are 1..MaxKey
MaxVal   == 2      \* values passed to insert / upsert are 1..MaxVal
MaxOps   == 2      \* operations issued by a worker
MaxEpoch == 3      \* the global epoch counter is capped here
MaxGen   == 3      \* number of bucket arrays (initial one + migrations)
NumCells == 16     \* heap cells of the pools

Workers == {"w1", "w2"}
Keys    == 1..MaxKey          \* keys of the concurrent workloads
AllKeys == 1..(MaxKey + 1)    \* keys of the single-worker workload
Vals    == 1..MaxVal
Cells   == 1..NumCells
Gens    == 1..MaxGen
None    == 0       \* std::nullopt / a null pointer
Kinds   == {"find", "insert", "upsert", "remove"}
SeqKinds == Kinds \cup {"size", "clear", "contains"}

\* Workers are interchangeable: the one that issues fewer operations is w2.
Quota(w) == IF w = "w1" THEN MaxOps ELSE MaxOps - 1

\* the value each concurrent worker inserts
InsVal(w) == IF w = "w1" THEN 1 ELSE MaxVal

\* bucket-list length above which an insert starts a migration
GrowThreshold == 1

\* --------------------------------------------------- 64-bit words (8 bytes)
\* A size_t is a tuple of 8 bytes, least significant first.
ToWord(n) == [i \in 1..8 |-> IF i = 1 THEN n % 256
                             ELSE IF i = 2 THEN (n \div 256) % 256
                             ELSE IF i = 3 THEN (n \div 65536) % 256
                             ELSE 0]

RECURSIVE XorBits(_, _, _)
XorBits(a, b, n) ==
  IF n = 0 THEN 0
  ELSE (((a % 2) + (b % 2)) % 2) + 2 * XorBits(a \div 2, b \div 2, n - 1)

Xor64(x, y) == [i \in 1..8 |-> XorBits(x[i], y[i], 8)]

RECURSIVE Column(_, _, _, _)
\* sum of a[i] * c[k+1-i] for i in 1..n
Column(a, c, k, n) ==
  IF n = 0 THEN 0 ELSE (a[n] * c[k + 1 - n]) + Column(a, c, k, n - 1)

RECURSIVE CarryIn(_, _, _)
CarryIn(a, c, k) ==
  IF k = 1 THEN 0
  ELSE (Column(a, c, k - 1, k - 1) + CarryIn(a, c, k - 1)) \div 256

\* a * c mod 2^64
Mul64(a, c) == [k \in 1..8 |-> (Column(a, c, k, k) + CarryIn(a, c, k)) % 256]

\* x >> 31  =  (x >> 24) >> 7
Shr31(x) ==
  LET y == [i \in 1..9 |-> IF i + 3 <= 8 THEN x[i + 3] ELSE 0]
  IN  [i \in 1..8 |-> (y[i] \div 128) + ((y[i + 1] * 2) % 256)]

\* UINT64_C(0xbf58476d1ce4e5b9)
MulConst == <<185, 229, 228, 28, 109, 71, 88, 191>>

\* rehash<Hash>::operator() for a hash that is not avalanching
rehash(h) ==
  LET x == Mul64(h, MulConst)
  IN  Xor64(x, Shr31(x))

\* std::hash of an integer key: the key itself
Hash(key) == ToWord(key)

MixedHash == [key \in AllKeys |-> rehash(Hash(key))]

\* hashv >> 48
Top16(hashv) == hashv[7] + 256 * hashv[8]

\* ---------------------------------------------- IndirectEntries::Entry
\* Key = std::pair<const K*, size_t>
make_key(key) == [first |-> key, second |-> MixedHash[key]]

hash(k) == k.second

\* the tag taken from the low 16 bits of the hash
tag_ptr_low(hashv, data) == [tag |-> hashv[1] + 256 * hashv[2], ptr |-> data]

\* The tagged pointer word: the low 48 bits address the pair (a heap cell),
\* the high 16 bits hold the top 16 bits of the mixed hash.
tag_ptr(hashv, data) == [tag |-> Top16(hashv), ptr |-> data]

get_ptr(e) == e.ptr

Entry(k, data) == tag_ptr(hash(k), data)

\* get_value returning kv.first
get_value_first(kv) == kv[1]

\* get_value = [] (const value_type& kv) {return kv.second;}
get_value(kv) == kv[2]

\* get_key returning x.second
get_key_of_second(kv) == kv[2]

\* MapData::get_key(const value_type& x) { return x.first;}
get_key_of(kv) == kv[1]

\* get_key taking the mapped value for the key
get_key_second(pair) == make_key(get_value(pair))

\* Key get_key() const { return make_key(DataS::get_key(*get_ptr()));}
get_key(pair) == make_key(get_key_of(pair))

\* equal comparing the low 16 bits of the hash with the tag
equal_low(e, pair, k) ==
  k.second[1] + 256 * k.second[2] = e.tag /\ get_key_of(pair) = k.first

\* bool equal(const Key& k): tags first, the pair is read only on a match
equal(e, pair, k) ==
  /\ Top16(k.second) = e.tag
  /\ get_key_of(pair) = k.first

\* ------------------------------------- the pointer word of an Entry, bit by bit
RECURSIVE OrBits(_, _, _)
OrBits(a, b, n) ==
  IF n = 0 THEN 0
  ELSE (IF (a % 2) + (b % 2) > 0 THEN 1 ELSE 0) + 2 * OrBits(a \div 2, b \div 2, n - 1)

Or64(x, y) == [i \in 1..8 |-> OrBits(x[i], y[i], 8)]

\* x >> 48
Shr48(x) == [i \in 1..8 |-> IF i <= 2 THEN x[i + 6] ELSE 0]

\* x << 48
Shl48(x) == [i \in 1..8 |-> IF i >= 7 THEN x[i - 6] ELSE 0]

\* x & ((1ul << 48) - 1)
Low48(x) == [i \in 1..8 |-> IF i <= 6 THEN x[i] ELSE 0]

\* (Data*) (((hashv >> 48) << 48) | ((size_t) data))
tag_ptr_bits(hashv, data) == Or64(Shl48(Shr48(hashv)), data)

\* get_ptr handing back the word with its tag
get_ptr_nomask(ptr) == ptr

\* (Data*) (((size_t) ptr) & ((1ul << 48) - 1))
get_ptr_bits(ptr) == Low48(ptr)

\* (k.second >> 48) == (((size_t) ptr) >> 48)
tags_match(ptr, k) == Shr48(k.second) = Shr48(ptr)

\* bool equal(const Key& k): the pair is read, and its key compared with
\* KeyEqual, only when the tags match; `stored` is the key of the pair read
equal_bits(ptr, stored, k) == tags_match(ptr, k) /\ stored = k.first

\* ------------------------------------------------------------------- state
VARIABLES
  probe,      \* an Entry built and probed on its own: the hash and pointer it
              \* is built from, its pointer word, the key probed for, the answer
  cap0,       \* the capacity the map was constructed with
  kinds,      \* the kinds of operation the workload issues
  current,    \* generation of the current bucket array
  next,       \* generation of the array being migrated to, 0 when none
  buckets,    \* buckets[g][i] = [st, ptr]: the bucket word
  tables,     \* tables[g] = [st, ep]: the bucket array as a pool object
  heap,       \* heap[c] = [st, ep, kind, data]: pairs and bucket lists
  epoch,      \* the global epoch
  announce,   \* announce[w]: the epoch w is active in, -1 when quiescent
  misuse,     \* a cell was retired that was not live
  pc,         \* where each worker is in its operation
  op,         \* the operation a worker is running
  tbl,        \* the bucket array a worker is working in
  mb,         \* the bucket a worker is migrating
  old,        \* the list pointer a worker loaded from the bucket word
  at,         \* position in that list of the entry equal to the key, 0 if none
  si,         \* size(): the next bucket to scan
  acc,        \* size(): the entries counted so far
  res,        \* the result of a worker's last operation
  nops,       \* operations each worker has issued
  ref,        \* the sequential reference map (history)
  refRes,     \* what the reference map returned at the linearization point
  pre,        \* the mapping when the last single-worker call was invoked
  added,      \* inserts that returned absent (find/insert/remove workloads)
  removed,    \* removes that returned a value (find/insert/remove workloads)
  winner,     \* winner[k]: value of the insert of k that returned absent
              \* (find/insert workloads)
  lastOp,     \* the call that returned last (single-worker workload)
  gone,       \* keys unbound by a remove and not inserted or upserted since
              \* (single-worker workload)
  span        \* span[w] = [lo, hi]: the keys bound at every / at some instant
              \* of w's last size(), from its invocation to its return
              \* (concurrent-size workload)

conf   == <<cap0, kinds, probe>>
tabs   == <<current, next, buckets, tables>>
pool   == <<heap, epoch, announce, misuse>>
locals == <<pc, op, tbl, mb, old, at, si, acc, res, nops>>
hist   == <<ref, refRes, pre, added, removed, winner, lastOp, gone, span>>
vars   == <<conf, tabs, pool, locals, hist>>

RECURSIVE Pow2(_)
Pow2(n) == IF n = 0 THEN 1 ELSE 2 * Pow2(n - 1)

\* the arrays double: cap0, 2 cap0, 4 cap0, ...
TableSize(gen) == cap0 * Pow2(gen - 1)

NoPair    == <<0, 0>>
NoEntry   == [tag |-> 0, ptr |-> 0]
EmptyWord == [st |-> "Stable", ptr |-> 0]
FreeCell  == [st |-> "free", ep |-> 0, kind |-> "none", data |-> <<>>]
\* no Entry is being probed on its own
NoProbe   == [at |-> "none"]

\* no scan in flight
NoSpan    == [lo |-> {}, hi |-> {}]
NoOp      == [kind |-> "none", key |-> 0, val |-> 0]

\* a compare that never succeeds
CasMatches_never(word, p) == FALSE

\* a compare that looks at the list pointer and not at the state bits
CasMatches_ptr(word, p) == word.ptr = p

\* the compare of a CAS on a bucket word: the bucket is Stable and still
\* holds the list that was loaded
CasMatches(word, p) == word = [st |-> "Stable", ptr |-> p]

\* a claim that leaves the state bits as they were
BusyWord_stable(p) == [st |-> "Stable", ptr |-> p]

\* the word of a claimed bucket: Busy, the list still in place
BusyWord(p) == [st |-> "Busy", ptr |-> p]

\* a forwarding store that leaves the bucket Busy
ForwardedWord_busy == [st |-> "Busy", ptr |-> 0]

\* the word of a migrated bucket
ForwardedWord == [st |-> "Forwarded", ptr |-> 0]

\* h mod table_size
BucketOf(hashv, size) == hashv[1] % size

\* ------------------------------------------------- epoch::memory_pool<T>
FreeCells(h) == {c \in Cells : h[c].st = "free"}

MinFree(h) == CHOOSE c \in FreeCells(h) : \A d \in FreeCells(h) : c <= d

\* New(args...): a fresh cell holding the object
New(h, kind, data) ==
  LET c == MinFree(h)
  IN  [h |-> [h EXCEPT ![c] = [st |-> "live", ep |-> 0, kind |-> kind,
                               data |-> data]],
       p |-> c]

\* the pool can serve n more allocations
Room(h, n) == Cardinality(FreeCells(h)) >= n

\* Retire(p): the cell is handed to the pool, stamped with the global epoch
Retire(h, c) ==
  IF c = 0 THEN h ELSE [h EXCEPT ![c].st = "retired", ![c].ep = epoch]

\* retiring something that is not a live object (twice, or never allocated)
BadRetire(h, c) == c # 0 /\ h[c].st # "live"

\* destruction runs no earlier than two epoch advances after the retirement
CanDestroy(ep) == ep + 2 <= epoch

\* the epoch may advance when every active worker has announced it
CanAdvance == \A w \in Workers : announce[w] \in {-1, epoch}

\* ----------------------------------------------- IndirectEntries (pool)
\* Entry make_entry(const Key& k, const Data& data)
make_entry(h, k, data) ==
  LET r == New(h, "pair", data)
  IN  [h |-> r.h, e |-> Entry(k, r.p)]

\* the pair destroyed at once instead of retired
retire_entry_delete(h, e) ==
  IF get_ptr(e) = 0 THEN h ELSE [h EXCEPT ![get_ptr(e)] = FreeCell]

\* the pair left alone instead of retired
retire_entry_skip(h, e) == h

\* void retire_entry(Entry& e)
retire_entry(h, e) == Retire(h, get_ptr(e))

\* ------------------------------------------------------- reading memory
\* Reading a destroyed cell (or one reused for another kind of object) is
\* undefined: any value may be seen.
GarbagePairs == AllKeys \X Vals

GarbageLists ==
  {<<>>} \cup {<<[tag |-> Top16(MixedHash[k]), ptr |-> c]>> : k \in AllKeys, c \in Cells}

GarbageWords ==
  [st : {"Stable", "Busy", "Forwarded"}, ptr : 0..NumCells]

DerefPair(c) ==
  IF heap[c].st # "free" /\ heap[c].kind = "pair"
  THEN {heap[c].data} ELSE GarbagePairs

DerefList(c) ==
  IF c = 0 THEN {<<>>}
  ELSE IF heap[c].st # "free" /\ heap[c].kind = "list"
       THEN {heap[c].data} ELSE GarbageLists

DerefBucket(gen, i) ==
  IF tables[gen].st \in {"live", "retired"} /\ i \in DOMAIN buckets[gen]
  THEN {buckets[gen][i]} ELSE GarbageWords

PairsInHeap == {heap[c].data : c \in {d \in Cells : heap[d].kind = "pair"}}

\* The pairs a probe for k reads while walking lst: an entry's pair is read
\* only when its tag matches.
PairViews(lst, k) ==
  {pv \in [1..Len(lst) -> GarbagePairs \cup {NoPair} \cup PairsInHeap] :
     \A i \in 1..Len(lst) :
        IF lst[i].tag = Top16(k.second)
        THEN pv[i] \in DerefPair(get_ptr(lst[i]))
        ELSE pv[i] = NoPair}

\* every entry's pair is read
AllPairViews(lst) ==
  {pv \in [1..Len(lst) -> GarbagePairs \cup PairsInHeap] :
     \A i \in 1..Len(lst) : pv[i] \in DerefPair(get_ptr(lst[i]))}

\* ----------------------------------------------------- logical contents
PairAt(c) == IF heap[c].kind = "pair" THEN heap[c].data ELSE NoPair

ListAt(p) == IF p = 0 \/ heap[p].kind # "list" THEN <<>> ELSE heap[p].data

SetMin(S) == CHOOSE x \in S : \A y \in S : x <= y

ValueIn(lst, key) ==
  LET hits == {i \in 1..Len(lst) : PairAt(lst[i].ptr)[1] = key}
  IN  IF hits = {} THEN None ELSE PairAt(lst[SetMin(hits)].ptr)[2]

Readable(gen) == gen \in Gens /\ tables[gen].st \in {"live", "retired"}

RECURSIVE LookupFrom(_, _)
LookupFrom(gen, key) ==
  LET i == BucketOf(MixedHash[key], TableSize(gen))
  IN  IF ~Readable(gen) THEN None
      ELSE IF buckets[gen][i].st = "Forwarded"
           THEN LookupFrom(gen + 1, key)
           ELSE ValueIn(ListAt(buckets[gen][i].ptr), key)

\* the key -> value mapping the table holds
Contents == [key \in AllKeys |-> LookupFrom(current, key)]

\* the entries under bucket i of array gen, following Forwarded buckets into
\* the two buckets of the next array they were split into
RECURSIVE BucketCount(_, _)
BucketCount(gen, i) ==
  IF ~Readable(gen) THEN 0
  ELSE IF buckets[gen][i].st = "Forwarded"
       THEN BucketCount(gen + 1, i) + BucketCount(gen + 1, i + TableSize(gen))
       ELSE Len(ListAt(buckets[gen][i].ptr))

RECURSIVE CountUpTo(_, _)
CountUpTo(gen, n) ==
  IF n = 0 THEN 0 ELSE BucketCount(gen, n - 1) + CountUpTo(gen, n - 1)

\* what size() returns when nothing else runs: the sum of the list lengths
TableCount == CountUpTo(current, TableSize(current))

\* ------------------------------------------------ the sequential map
\* f of upsert: f(None) = a, f(Some(x)) = x + a (a = 1: the accumulator)
F(a, optv) == IF optv = None THEN a ELSE optv + a

Bound(m) == {key \in DOMAIN m : m[key] # None}

\* contains() of the reference map
Yes == 1
No  == 2

SeqResult(o, m) ==
  CASE o.kind = "size" -> Cardinality(Bound(m))
    [] o.kind = "clear" -> None
    [] o.kind = "contains" -> IF m[o.key] # None THEN Yes ELSE No
    [] OTHER -> m[o.key]

SeqNext(o, m) ==
  CASE o.kind = "insert" -> IF m[o.key] = None THEN [m EXCEPT ![o.key] = o.val] ELSE m
    [] o.kind = "upsert" -> [m EXCEPT ![o.key] = F(o.val, m[o.key])]
    [] o.kind = "remove" -> [m EXCEPT ![o.key] = None]
    [] o.kind = "clear"  -> [key \in DOMAIN m |-> None]
    [] OTHER -> m

\* -------------------------------------------------------------- Init
\* unordered_map_(long n, bool clear_at_end): an empty table of n buckets
InitMap(n, workload) ==
  /\ cap0 = n
  /\ kinds = workload
  /\ probe = NoProbe
  /\ current = 1
  /\ next = 0
  /\ buckets = [gen \in Gens |-> IF gen = 1 THEN [i \in 0..(n - 1) |-> EmptyWord]
                                 ELSE <<>>]
  /\ tables = [gen \in Gens |-> [st |-> IF gen = 1 THEN "live" ELSE "none", ep |-> 0]]
  /\ heap = [c \in Cells |-> FreeCell]
  /\ epoch = 0
  /\ announce = [w \in Workers |-> -1]
  /\ misuse = FALSE
  /\ pc = [w \in Workers |-> "idle"]
  /\ op = [w \in Workers |-> NoOp]
  /\ tbl = [w \in Workers |-> 0]
  /\ mb = [w \in Workers |-> 0]
  /\ old = [w \in Workers |-> 0]
  /\ at = [w \in Workers |-> 0]
  /\ si = [w \in Workers |-> 0]
  /\ acc = [w \in Workers |-> 0]
  /\ res = [w \in Workers |-> None]
  /\ nops = [w \in Workers |-> 0]
  /\ ref = [key \in AllKeys |-> None]
  /\ refRes = [w \in Workers |-> None]
  /\ pre = [key \in AllKeys |-> None]
  /\ added = 0
  /\ removed = 0
  /\ winner = [key \in AllKeys |-> None]
  /\ lastOp = NoOp
  /\ gone = {}
  /\ span = [w \in Workers |-> NoSpan]

Init == InitMap(1, Kinds)

\* ---------------------------------------------------------- operations
\* no operation is in flight
Quiescent == \A w \in Workers : pc[w] \in {"idle", "done"}

\* the driver counts successful inserts and removes when it issues no upsert
Counting == kinds \subseteq {"find", "insert", "remove"}

\* ... and follows the winners of an insert race when it issues no remove
Racing == kinds \subseteq {"find", "insert"}

\* the single-worker driver remembers the call that returned last
Sequential == "clear" \in kinds

\* the driver that runs size() next to the updates follows what each scan spans
Sizing == "size" \in kinds /\ ~Sequential

\* enter the epoch critical section and read the current table
Invoke(w, keys, vals, incs, quota) ==
  /\ pc[w] \in {"idle", "done"}
  /\ nops[w] < quota
  /\ \E kd \in kinds, key \in keys, v \in vals, a \in incs :
       /\ op' = [op EXCEPT ![w] =
                   [kind |-> kd,
                    key |-> IF kd \in {"size", "clear"} THEN 0 ELSE key,
                    val |-> IF kd = "insert" THEN v
                            ELSE IF kd = "upsert" THEN a ELSE 0]]
       /\ pc' = [pc EXCEPT ![w] = CASE kd = "size" -> "scan"
                                    [] kd = "clear" -> "clear"
                                    [] kd = "contains" -> "contains"
                                    [] OTHER -> "load"]
       /\ span' = IF Sizing /\ kd = "size"
                  THEN [span EXCEPT ![w] = [lo |-> Bound(ref), hi |-> Bound(ref)]]
                  ELSE span
  /\ announce' = [announce EXCEPT ![w] = epoch]
  /\ tbl' = [tbl EXCEPT ![w] = current]
  /\ res' = [res EXCEPT ![w] = None]
  /\ refRes' = [refRes EXCEPT ![w] = None]
  /\ nops' = [nops EXCEPT ![w] = @ + 1]
  /\ UNCHANGED <<conf, tabs, heap, epoch, misuse, mb, old, at, si, acc,
                 ref, added, removed, winner, lastOp, gone>>

Begin(w) == Invoke(w, Keys, {InsVal(w)}, {1}, Quota(w)) /\ UNCHANGED pre

\* leave the critical section with result r
Finish(w, r) ==
  /\ pc' = [pc EXCEPT ![w] = "done"]
  /\ op' = [op EXCEPT ![w] = NoOp]
  /\ res' = [res EXCEPT ![w] = r]
  /\ announce' = [announce EXCEPT ![w] = -1]
  /\ tbl' = [tbl EXCEPT ![w] = 0]
  /\ mb' = [mb EXCEPT ![w] = 0]
  /\ old' = [old EXCEPT ![w] = 0]
  /\ at' = [at EXCEPT ![w] = 0]
  /\ si' = [si EXCEPT ![w] = 0]
  /\ acc' = [acc EXCEPT ![w] = 0]
  /\ added' = IF Counting /\ op[w].kind = "insert" /\ r = None
              THEN added + 1 ELSE added
  /\ removed' = IF Counting /\ op[w].kind = "remove" /\ r # None
                THEN removed + 1 ELSE removed
  /\ winner' = IF Racing /\ op[w].kind = "insert" /\ r = None
               THEN [winner EXCEPT ![op[w].key] = op[w].val] ELSE winner
  /\ lastOp' = IF Sequential THEN op[w] ELSE lastOp
  /\ gone' = IF ~Sequential THEN gone
             ELSE IF op[w].kind = "remove" /\ r # None THEN gone \cup {op[w].key}
             ELSE IF op[w].kind \in {"insert", "upsert"} THEN gone \ {op[w].key}
             ELSE gone
  /\ span' = [v \in Workers |->
                IF ~Sizing THEN NoSpan
                ELSE IF v = w \/ pc[v] # "scan" THEN span[v]
                ELSE [lo |-> span[v].lo \cap Bound(ref'),
                      hi |-> span[v].hi \cup Bound(ref')]]
  /\ UNCHANGED <<nops, pre>>

\* load the bucket word (acquire)
Load(w) ==
  /\ pc[w] = "load"
  /\ LET gen == tbl[w]
         i == BucketOf(hash(make_key(op[w].key)), TableSize(gen))
     IN  \E word \in DerefBucket(gen, i) :
           /\ word.st # "Busy"
           /\ IF word.st = "Forwarded"
              THEN /\ gen < MaxGen
                   /\ tbl' = [tbl EXCEPT ![w] = gen + 1]
                   /\ UNCHANGED <<pc, old, refRes>>
              ELSE /\ old' = [old EXCEPT ![w] = word.ptr]
                   /\ pc' = [pc EXCEPT ![w] = "walk"]
                   /\ refRes' = [refRes EXCEPT ![w] = SeqResult(op[w], ref)]
                   /\ UNCHANGED tbl
  /\ UNCHANGED <<conf, tabs, pool, op, mb, at, si, acc, res, nops,
                 ref, pre, added, removed, winner, lastOp, gone, span>>

\* g returning the key of the entry instead of its value
g_first(pair) == get_key_of(pair)

\* g = [&] (const Entry& e) {return get_value(e.get_entry());}
g(pair) == get_value(pair)

\* the new pair built as value_type(key, key)
InsertConstr_key(h, key, value) == make_entry(h, make_key(key), <<key, key>>)

\* Insert: [&] {return entries_.make_entry(k, value_type(key, value));}
InsertConstr(h, key, value) == make_entry(h, make_key(key), <<key, value>>)

\* constr without the has_value branch: f is always given the empty optional
UpsertConstr_fresh(h, key, a, epair) ==
  make_entry(h, make_key(key), <<key, F(a, None)>>)

\* Upsert: constr(const std::optional<Entry>& e), e given by the pair it addresses
UpsertConstr(h, key, a, epair) ==
  IF epair # NoPair
  THEN make_entry(h, make_key(key), <<key, F(a, get_value(epair))>>)
  ELSE make_entry(h, make_key(key), <<key, F(a, None)>>)

\* an insert sees that its bucket list would grow past the threshold
Overloaded(w, lst) ==
  /\ Len(lst) + 1 > GrowThreshold
  /\ next = 0
  /\ tbl[w] = current
  /\ current < MaxGen

\* the entries of lst at the positions in keep, in order
RECURSIVE Pick(_, _, _)
Pick(lst, keep, n) ==
  IF n = 0 THEN <<>>
  ELSE IF n \in keep THEN Append(Pick(lst, keep, n - 1), lst[n])
       ELSE Pick(lst, keep, n - 1)

\* walk the loaded list; a find, a duplicate insert and a remove of an absent
\* key return here, an update goes on to build its new list (an insert that
\* sees its bucket overloaded goes on to publish the next table first)
Walk(w) ==
  /\ pc[w] = "walk"
  /\ LET k == make_key(op[w].key)
         kind == op[w].kind
     IN  \E lst \in DerefList(old[w]) : \E pv \in PairViews(lst, k) :
           LET hits == {i \in 1..Len(lst) : equal(lst[i], pv[i], k)}
               found == hits # {}
               i0 == IF found THEN SetMin(hits) ELSE 0
           IN  IF kind = "find" \/ (kind = "insert" /\ found)
                                \/ (kind = "remove" /\ ~found)
               THEN /\ UNCHANGED <<conf, tabs, heap, epoch, misuse, ref, refRes>>
                    /\ Finish(w, IF found THEN g(pv[i0]) ELSE None)
               ELSE LET grow == ~found /\ kind # "remove" /\ Overloaded(w, lst)
                    IN  /\ at' = [at EXCEPT ![w] = i0]
                        /\ pc' = [pc EXCEPT ![w] = IF grow THEN "grow" ELSE "cas"]
                        /\ UNCHANGED <<conf, tabs, pool, op, tbl, mb, old, si, acc,
                                       res, nops, hist>>

\* publishing on a null next alone, whatever the current table is by now
MayPublish_null(w) == next = 0

\* the (current, next) pair is still the one the overload was seen in
MayPublish(w) == next = 0 /\ current = tbl[w]

\* the insert that saw the overload allocates a table of twice the size and
\* publishes it as next, unless a migration was published meanwhile
Publish(w) ==
  /\ pc[w] = "grow"
  /\ IF MayPublish(w)
     THEN /\ next' = tbl[w] + 1
          /\ tables' = [tables EXCEPT ![tbl[w] + 1] = [st |-> "live", ep |-> 0]]
          /\ buckets' = [buckets EXCEPT ![tbl[w] + 1] =
                           [i \in 0..(2 * TableSize(tbl[w]) - 1) |-> EmptyWord]]
          /\ UNCHANGED current
     ELSE UNCHANGED tabs
  /\ pc' = [pc EXCEPT ![w] = "cas"]
  /\ UNCHANGED <<conf, pool, op, tbl, mb, old, at, si, acc, res, nops, hist>>

\* build the new entry and the new list from the old one, then
\* compare-and-swap the bucket word from the loaded list to the new one
CAS(w) ==
  /\ pc[w] = "cas"
  /\ Room(heap, 2)
  /\ \E lst \in DerefList(old[w]) :
     \E oldpair \in (IF at[w] = 0 \/ at[w] > Len(lst) THEN {NoPair}
                     ELSE DerefPair(get_ptr(lst[at[w]]))) :
     LET gen == tbl[w]
         i == BucketOf(hash(make_key(op[w].key)), TableSize(gen))
         kind == op[w].kind
         i0 == IF oldpair = NoPair THEN 0 ELSE at[w]
         olde == IF i0 = 0 THEN NoEntry ELSE lst[i0]
         made == CASE kind = "insert" -> InsertConstr(heap, op[w].key, op[w].val)
                   [] kind = "upsert" -> UpsertConstr(heap, op[w].key, op[w].val, oldpair)
                   [] OTHER -> [h |-> heap, e |-> NoEntry]
         content == CASE kind = "remove" -> Pick(lst, (1..Len(lst)) \ {i0}, Len(lst))
                      [] kind # "remove" /\ i0 # 0 -> [lst EXCEPT ![i0] = made.e]
                      [] OTHER -> <<made.e>> \o lst
         lcell == IF content = <<>> THEN [h |-> made.h, p |-> 0]
                  ELSE New(made.h, "list", content)
     IN  \E word \in DerefBucket(gen, i) :
           IF CasMatches(word, old[w])
           THEN /\ buckets' = [buckets EXCEPT ![gen][i] =
                                 [st |-> "Stable", ptr |-> lcell.p]]
                /\ heap' = retire_entry(Retire(lcell.h, old[w]), olde)
                /\ misuse' = (misuse \/ BadRetire(lcell.h, old[w])
                                     \/ BadRetire(lcell.h, get_ptr(olde)))
                /\ ref' = SeqNext(op[w], ref)
                /\ refRes' = [refRes EXCEPT ![w] = SeqResult(op[w], ref)]
                /\ Finish(w, IF oldpair = NoPair THEN None ELSE g(oldpair))
                /\ UNCHANGED <<conf, current, next, tables, epoch>>
           ELSE /\ heap' = retire_entry(Retire(lcell.h, lcell.p), made.e)
                /\ pc' = [pc EXCEPT ![w] = "load"]
                /\ old' = [old EXCEPT ![w] = 0]
                /\ at' = [at EXCEPT ![w] = 0]
                /\ UNCHANGED <<conf, tabs, epoch, announce, misuse, op, tbl, mb,
                               si, acc, res, nops, hist>>

\* ----------------------------------------------------------- migration
\* a worker inside an operation picks a Stable bucket of the old table
Help(w) ==
  /\ pc[w] = "load"
  /\ next # 0
  /\ tbl[w] = current
  /\ \E j \in DOMAIN buckets[current] :
       /\ buckets[current][j].st = "Stable"
       /\ mb' = [mb EXCEPT ![w] = j]
       /\ old' = [old EXCEPT ![w] = buckets[current][j].ptr]
  /\ pc' = [pc EXCEPT ![w] = "claim"]
  /\ UNCHANGED <<conf, tabs, pool, op, tbl, at, si, acc, res, nops, hist>>

\* claim the bucket: CAS Stable -> Busy
Claim(w) ==
  /\ pc[w] = "claim"
  /\ \E word \in DerefBucket(tbl[w], mb[w]) :
       IF CasMatches(word, old[w])
       THEN /\ buckets' = [buckets EXCEPT ![tbl[w]][mb[w]] = BusyWord(old[w])]
            /\ pc' = [pc EXCEPT ![w] = "copy"]
            /\ UNCHANGED <<mb, old>>
       ELSE /\ pc' = [pc EXCEPT ![w] = "load"]
            /\ mb' = [mb EXCEPT ![w] = 0]
            /\ old' = [old EXCEPT ![w] = 0]
            /\ UNCHANGED buckets
  /\ UNCHANGED <<conf, current, next, tables, pool, op, tbl, at, si, acc,
                 res, nops, hist>>

\* the claimant re-hashes the entries into the two destination buckets of the
\* new table and publishes them with plain stores
Copy(w) ==
  /\ pc[w] = "copy"
  /\ Room(heap, 2)
  /\ \E lst \in DerefList(old[w]) : \E pv \in AllPairViews(lst) :
       LET gen == tbl[w]
           s == TableSize(gen)
           j == mb[w]
           dest(i) == BucketOf(hash(get_key(pv[i])), 2 * s)
           lo == Pick(lst, {i \in 1..Len(lst) : dest(i) = j}, Len(lst))
           hi == Pick(lst, {i \in 1..Len(lst) : dest(i) = j + s}, Len(lst))
           r1 == IF lo = <<>> THEN [h |-> heap, p |-> 0] ELSE New(heap, "list", lo)
           r2 == IF hi = <<>> THEN [h |-> r1.h, p |-> 0] ELSE New(r1.h, "list", hi)
       IN  /\ heap' = r2.h
           /\ buckets' = [buckets EXCEPT ![gen + 1][j] = [st |-> "Stable", ptr |-> r1.p],
                                         ![gen + 1][j + s] = [st |-> "Stable", ptr |-> r2.p]]
  /\ pc' = [pc EXCEPT ![w] = "forward"]
  /\ UNCHANGED <<conf, current, next, tables, epoch, announce, misuse,
                 op, tbl, mb, old, at, si, acc, res, nops, hist>>

\* publish the old bucket as Forwarded and retire its list
Forward(w) ==
  /\ pc[w] = "forward"
  /\ buckets' = [buckets EXCEPT ![tbl[w]][mb[w]] = ForwardedWord]
  /\ heap' = Retire(heap, old[w])
  /\ misuse' = (misuse \/ BadRetire(heap, old[w]))
  /\ pc' = [pc EXCEPT ![w] = "load"]
  /\ mb' = [mb EXCEPT ![w] = 0]
  /\ old' = [old EXCEPT ![w] = 0]
  /\ UNCHANGED <<conf, current, next, tables, epoch, announce,
                 op, tbl, at, si, acc, res, nops, hist>>

AllForwarded(gen) ==
  \A i \in DOMAIN buckets[gen] : buckets[gen][i].st = "Forwarded"

\* current = next; next = null; the old bucket array goes to the epoch pool
Swap ==
  /\ next # 0
  /\ AllForwarded(current)
  /\ current' = next
  /\ next' = 0
  /\ tables' = [tables EXCEPT ![current] = [st |-> "retired", ep |-> epoch]]
  /\ UNCHANGED <<conf, buckets, pool, locals, hist>>

\* ------------------------------------------------------------- epochs
Advance ==
  /\ epoch < MaxEpoch
  /\ CanAdvance
  /\ epoch' = epoch + 1
  /\ UNCHANGED <<conf, tabs, heap, announce, misuse, locals, hist>>

\* the pool destroys what was retired long enough ago
Reclaim ==
  LET deadCells == {c \in Cells : heap[c].st = "retired" /\ CanDestroy(heap[c].ep)}
      deadTabs == {gen \in Gens : tables[gen].st = "retired" /\ CanDestroy(tables[gen].ep)}
  IN  /\ deadCells \cup deadTabs # {}
      /\ heap' = [c \in Cells |-> IF c \in deadCells THEN FreeCell ELSE heap[c]]
      /\ tables' = [gen \in Gens |-> IF gen \in deadTabs
                                     THEN [st |-> "freed", ep |-> 0] ELSE tables[gen]]
      /\ buckets' = [gen \in Gens |-> IF gen \in deadTabs THEN <<>> ELSE buckets[gen]]
      /\ UNCHANGED <<conf, current, next, epoch, announce, misuse, locals, hist>>

\* ------------------------------------------- size, clear and contains
\* long size() { return m.size();}: scan the buckets, summing list lengths
Scan(w) ==
  /\ pc[w] = "scan"
  /\ LET gen == tbl[w]
         i == si[w]
     IN  \E word \in DerefBucket(gen, i) :
           /\ word.st # "Busy"
           /\ LET n == acc[w] + BucketCount(gen, i)
              IN  IF i + 1 < TableSize(gen)
                  THEN /\ si' = [si EXCEPT ![w] = i + 1]
                       /\ acc' = [acc EXCEPT ![w] = n]
                       /\ UNCHANGED <<conf, tabs, pool, pc, op, tbl, mb, old, at,
                                      res, nops, hist>>
                  ELSE /\ refRes' = [refRes EXCEPT ![w] = SeqResult(op[w], ref)]
                       /\ UNCHANGED <<conf, tabs, heap, epoch, misuse, ref>>
                       /\ Finish(w, n)

\* the Stable buckets of an array
StableIn(gen) == {i \in DOMAIN buckets[gen] : buckets[gen][i].st = "Stable"}

\* void clear() { m.clear_buckets();}: every bucket is emptied, every list and
\* (retire_entry) every entry on it is retired to the pool
Clear(w) ==
  /\ pc[w] = "clear"
  /\ LET live == {current, next} \ {0}
         lists == UNION {{buckets[gen][i].ptr : i \in StableIn(gen)} : gen \in live} \ {0}
         entries == UNION {{ListAt(p)[n] : n \in 1..Len(ListAt(p))} : p \in lists}
         pairs == {get_ptr(e) : e \in entries}
         dead == lists \cup pairs
     IN  /\ heap' = [c \in Cells |->
                       IF c \in lists THEN Retire(heap, c)[c]
                       ELSE IF c \in pairs
                            THEN retire_entry(heap, CHOOSE e \in entries : get_ptr(e) = c)[c]
                            ELSE heap[c]]
         /\ misuse' = (misuse \/ \E c \in dead : BadRetire(heap, c))
         /\ buckets' = [gen \in Gens |->
                          IF gen \in live
                          THEN [i \in DOMAIN buckets[gen] |->
                                  IF i \in StableIn(gen) THEN EmptyWord
                                  ELSE buckets[gen][i]]
                          ELSE buckets[gen]]
  /\ ref' = SeqNext(op[w], ref)
  /\ refRes' = [refRes EXCEPT ![w] = SeqResult(op[w], ref)]
  /\ Finish(w, None)
  /\ UNCHANGED <<conf, current, next, tables, epoch>>

\* what a call that matches no declared member function yields
IllFormed == -1

\* iterator find(const K& k) { return m.find(k); }: the one find that
\* unordered_map_ declares takes the key alone; a call with any other argument
\* list is ill-formed
find(args) == IF Len(args) = 1 THEN LookupFrom(current, args[1]) ELSE IllFormed

has_value(x) == IF x = IllFormed THEN IllFormed ELSE IF x # None THEN Yes ELSE No

\* bool contains(const K& k) { return find(k, true_f).has_value();}
contains(k) == has_value(find(<<k, "true_f">>))

ContainsCall(w) ==
  /\ pc[w] = "contains"
  /\ refRes' = [refRes EXCEPT ![w] = SeqResult(op[w], ref)]
  /\ UNCHANGED <<conf, tabs, heap, epoch, misuse, ref>>
  /\ Finish(w, contains(op[w].key))

\* ------------------------------------------------------ specifications
Next ==
  \/ \E w \in Workers :
       \/ Begin(w)
       \/ Load(w)
       \/ Walk(w)
       \/ CAS(w)
       \/ Publish(w)
       \/ Help(w)
       \/ Claim(w)
       \/ Copy(w)
       \/ Forward(w)
  \/ Swap
  \/ Advance
  \/ Reclaim

\* two workers, mixed find / insert / upsert / remove, capacity 1
Spec == Init /\ [][Next]_vars

\* two workers that only insert
InitIns == InitMap(1, {"insert"})

SpecIns == InitIns /\ [][Next]_vars

\* two workers that only upsert, with f adding 1 (absent counts as 0)
InitUps == InitMap(1, {"upsert"})

SpecUps == InitUps /\ [][Next]_vars

\* two workers that find, insert and remove
InitFIR == InitMap(1, {"find", "insert", "remove"})

SpecFIR == InitFIR /\ [][Next]_vars

\* two workers that find, insert and remove, w1 over the keys 1..MaxKey and w2
\* over one more key, so that the table of capacity 1 grows twice
InitGrow == InitMap(1, {"find", "insert", "remove"})

GrowKeys(w) == IF w = "w1" THEN Keys ELSE AllKeys \ Keys

BeginGrow(w) ==
  Invoke(w, GrowKeys(w), {InsVal(w)}, {1}, Quota(w)) /\ UNCHANGED pre

NextGrow ==
  \/ \E w \in Workers :
       \/ BeginGrow(w)
       \/ Load(w)
       \/ Walk(w)
       \/ CAS(w)
       \/ Publish(w)
       \/ Help(w)
       \/ Claim(w)
       \/ Copy(w)
       \/ Forward(w)
  \/ Swap
  \/ Advance
  \/ Reclaim

SpecGrow == InitGrow /\ [][NextGrow]_vars

\* two workers that insert, upsert and remove; when they are done the table
\* is cleared and the workload ends
InitLeak == InitMap(1, {"insert", "upsert", "remove"})

\* the final clear(), called with no operation in flight
BeginClear(w) ==
  /\ Quiescent
  /\ kinds # {}
  /\ kinds' = {}
  /\ op' = [op EXCEPT ![w] = [kind |-> "clear", key |-> 0, val |-> 0]]
  /\ pc' = [pc EXCEPT ![w] = "clear"]
  /\ announce' = [announce EXCEPT ![w] = epoch]
  /\ tbl' = [tbl EXCEPT ![w] = current]
  /\ res' = [res EXCEPT ![w] = None]
  /\ refRes' = [refRes EXCEPT ![w] = None]
  /\ UNCHANGED <<cap0, probe, tabs, heap, epoch, misuse, mb, old, at, si, acc, nops,
                 ref, pre, added, removed, winner, lastOp, gone, span>>

NextLeak ==
  \/ \E w \in Workers :
       \/ Begin(w)
       \/ Load(w)
       \/ Walk(w)
       \/ CAS(w)
       \/ Publish(w)
       \/ Help(w)
       \/ Claim(w)
       \/ Copy(w)
       \/ Forward(w)
  \/ BeginClear("w1")
  \/ Clear("w1")
  \/ Swap
  \/ Advance
  \/ Reclaim

SpecLeak == InitLeak /\ [][NextLeak]_vars

\* two workers that insert MaxOps times each, the second always the last key:
\* enough inserts for both to be inside an operation while a migration is
\* under way, and for both to see the same bucket overloaded
InitMig == InitMap(1, {"insert"})

MigKeys(w) == IF w = "w1" THEN Keys ELSE {MaxKey}

BeginMig(w) == Invoke(w, MigKeys(w), {InsVal(w)}, {1}, MaxOps) /\ UNCHANGED pre

NextMig ==
  \/ \E w \in Workers :
       \/ BeginMig(w)
       \/ Load(w)
       \/ Walk(w)
       \/ CAS(w)
       \/ Publish(w)
       \/ Help(w)
       \/ Claim(w)
       \/ Copy(w)
       \/ Forward(w)
  \/ Swap
  \/ Advance
  \/ Reclaim

SpecMig == InitMig /\ [][NextMig]_vars

\* a step of worker w inside an operation it has begun
Step(w) ==
  \/ Load(w)
  \/ Walk(w)
  \/ CAS(w)
  \/ Publish(w)
  \/ Help(w)
  \/ Claim(w)
  \/ Copy(w)
  \/ Forward(w)

\* worker w can take a step of its operation: ENABLED Step(w), written out.
\* Only the load waits, on a Busy word that it cannot help with
Ready(w) ==
  \/ pc[w] \in {"walk", "grow", "cas", "claim", "copy", "forward"}
  \/ /\ pc[w] = "load"
     /\ \/ LET word == buckets[tbl[w]][BucketOf(MixedHash[op[w].key], TableSize(tbl[w]))]
           IN  word.st = "Stable" \/ (word.st = "Forwarded" /\ tbl[w] < MaxGen)
        \/ next # 0 /\ tbl[w] = current /\ StableIn(current) # {}

\* worker w has taken a step of its operation
Stepped(w) ==
  /\ pc[w] \notin {"idle", "done"}
  /\ <<pc[w], tbl[w], mb[w], old[w], at[w]>>' # <<pc[w], tbl[w], mb[w], old[w], at[w]>>

\* the workers are OS threads: one that can take a step of its operation is
\* scheduled in the end (weak fairness of Step(w)), and so is the controller's
\* swap; nothing obliges a worker to begin another operation
Fairness ==
  /\ \A w \in Workers : []<>(~Ready(w)) \/ []<><<Stepped(w)>>_vars
  /\ WF_vars(Swap)

SpecMigFair == SpecMig /\ Fairness

\* the mixed workload of Spec with the same scheduling
SpecFair == Spec /\ Fairness

\* ----------------------------------------- an Entry built and probed alone
AllOnes == [i \in 1..8 |-> 255]

\* mixed hashes: those of the keys, the extremes, and one that shares its top
\* 16 bits with the hash of key 1 and differs below
TagHashes ==
  {MixedHash[key] : key \in AllKeys}
    \cup {ToWord(0), AllOnes, Shl48(AllOnes), Low48(AllOnes),
          [MixedHash[1] EXCEPT ![1] = (@ + 1) % 256]}

\* pointers below 2^48: null, small addresses, bit 47 alone, all 48 bits
TagPtrs ==
  {ToWord(0), ToWord(1), ToWord(NumCells), Low48(AllOnes),
   [i \in 1..8 |-> IF i = 6 THEN 128 ELSE 0]}

\* Key = std::pair<const K*, size_t>, the key and its mixed hash
TagKeys == [first : AllKeys, second : TagHashes]

\* the inputs: the key and the pair address an Entry is built from, and the key
\* probed for; KeyEqual is consistent with the hash (equal keys, equal hashes)
Draw ==
  /\ probe.at \in {"none", "probed"}
  /\ \E sk \in TagKeys, data \in TagPtrs, k \in TagKeys :
       /\ sk.first = k.first => sk.second = k.second
       /\ probe' = [at |-> "drawn", stored |-> sk, data |-> data, k |-> k,
                    ptr |-> ToWord(0), got |-> ToWord(0), read |-> FALSE,
                    eq |-> FALSE]
  /\ UNCHANGED <<cap0, kinds, tabs, pool, locals, hist>>

\* Entry(Key k, Data* data) : ptr(tag_ptr(hash(k), data)) {}
EntryBuild ==
  /\ probe.at = "drawn"
  /\ probe' = [probe EXCEPT !.at = "built",
                           !.ptr = tag_ptr_bits(hash(probe.stored), probe.data)]
  /\ UNCHANGED <<cap0, kinds, tabs, pool, locals, hist>>

\* e.equal(k): the pair at get_ptr() is read only when the tags match; what is
\* read at an address other than the pair's is any key
EntryEqual ==
  /\ probe.at = "built"
  /\ \E seen \in (IF get_ptr_bits(probe.ptr) = probe.data
                   THEN {probe.stored.first} ELSE AllKeys) :
       probe' = [probe EXCEPT !.at = "probed",
                              !.got = get_ptr_bits(probe.ptr),
                              !.read = tags_match(probe.ptr, probe.k),
                              !.eq = equal_bits(probe.ptr, seen, probe.k)]
  /\ UNCHANGED <<cap0, kinds, tabs, pool, locals, hist>>

InitTag == InitMap(1, {})

NextTag == Draw \/ EntryBuild \/ EntryEqual

SpecTag == InitTag /\ [][NextTag]_vars

\* one worker inserts and removes while the other calls size(); two buckets
\* to begin with, so that a scan is more than one read
SizeOps == MaxOps + 1

InitSize == InitMap(2, {"insert", "remove", "size"})

BeginSize(w) ==
  /\ Invoke(w, AllKeys, {InsVal(w)}, {1}, IF w = "w1" THEN SizeOps ELSE MaxOps)
  /\ (op'[w].kind = "size") <=> (w = "w2")
  /\ UNCHANGED pre

NextSize ==
  \/ \E w \in Workers :
       \/ BeginSize(w)
       \/ Load(w)
       \/ Walk(w)
       \/ CAS(w)
       \/ Publish(w)
       \/ Help(w)
       \/ Claim(w)
       \/ Copy(w)
       \/ Forward(w)
       \/ Scan(w)
  \/ Swap
  \/ Advance
  \/ Reclaim

SpecSize == InitSize /\ [][NextSize]_vars

\* operations of the single worker
SeqOps == MaxOps + 1

\* the capacities the single-worker map is constructed with
InitSeq == \E n \in {1, 2} : InitMap(n, SeqKinds)

BeginSeq(w) == Invoke(w, AllKeys, Vals, Vals, SeqOps) /\ pre' = Contents

NextSeq ==
  \/ BeginSeq("w1")
  \/ Load("w1")
  \/ Walk("w1")
  \/ CAS("w1")
  \/ Publish("w1")
  \/ Help("w1")
  \/ Claim("w1")
  \/ Copy("w1")
  \/ Forward("w1")
  \/ Scan("w1")
  \/ Clear("w1")
  \/ ContainsCall("w1")
  \/ Swap
  \/ Advance
  \/ Reclaim

\* one worker, every operation of the map, capacity 1 or 2
SpecSeq == InitSeq /\ [][NextSeq]_vars

\* ---------------------------------------------------------- properties
\* C1: the table is linearizable. Every operation takes effect at one point
\* between its invocation and its return (the bucket load it acts on for a
\* find, a duplicate insert and a remove of an absent key; its successful CAS
\* for an update): the result it returns is the one the sequential map gives
\* at that point, and the table holds the mapping the sequential map holds.
Linearizable ==
  /\ \A w \in Workers : pc[w] = "done" => res[w] = refRes[w]
  /\ Contents = ref

\* w1 has built its update from a list that w2 replaced, and w2 has returned
\* the value it found
Overlap ==
  /\ pc["w1"] = "cas"
  /\ nops["w1"] = MaxOps
  /\ pc["w2"] = "done"
  /\ res["w2"] # None
  /\ buckets[tbl["w1"]][BucketOf(MixedHash[op["w1"].key], TableSize(tbl["w1"]))]
       # [st |-> "Stable", ptr |-> old["w1"]]

\* the single worker's call has returned
Returned(kind) == pc["w1"] = "done" /\ lastOp.kind = kind

\* C2: insert(k, v) on a table where k is unbound returns absent and binds k
\* to v; on a table where k is bound to v0 it returns v0 and changes nothing
\* (an existing binding is never overwritten by insert).
InsertContract ==
  Returned("insert") =>
    LET k == lastOp.key
    IN  IF pre[k] = None
        THEN res["w1"] = None /\ Contents = [pre EXCEPT ![k] = lastOp.val]
        ELSE res["w1"] = pre[k] /\ Contents = pre

\* an insert of a bound key with another value has returned the old value
InsertKept ==
  /\ Returned("insert")
  /\ pre[lastOp.key] # None
  /\ pre[lastOp.key] # lastOp.val
  /\ res["w1"] = pre[lastOp.key]

\* a remove of k returns now, and a remove unbound k before with no insert or
\* upsert of k since
RemovesAgain ==
  /\ pc["w1"] # "done"
  /\ pc'["w1"] = "done"
  /\ op["w1"].kind = "remove"
  /\ op["w1"].key \in gone

\* C3: remove(k) on a table where k is bound to v returns v and leaves k
\* unbound; where k is unbound it returns absent and changes nothing. A second
\* remove(k), with nothing binding k in between, returns absent.
RemoveContract ==
  /\ [](Returned("remove") =>
          LET k == lastOp.key
          IN  /\ res["w1"] = pre[k]
              /\ Contents = [pre EXCEPT ![k] = None])
  /\ [][RemovesAgain => res'["w1"] = None /\ Contents' = Contents]_vars

\* a remove of k returned its value, and a later remove of k has returned
\* absent
RemovedAgain ==
  /\ Returned("remove")
  /\ res["w1"] = None
  /\ lastOp.key \in gone

SeqRefines ==
  /\ pc["w1"] = "done" => res["w1"] = refRes["w1"]
  /\ Contents = ref

\* the same for every call but contains
SeqRefinesButContains ==
  /\ pc["w1"] = "done" /\ lastOp.kind # "contains" => res["w1"] = refRes["w1"]
  /\ Contents = ref
  /\ ~misuse

\* an insert of worker w returns now
InsertReturns(w) ==
  /\ pc[w] # "done"
  /\ pc'[w] = "done"
  /\ op[w].kind = "insert"

\* C6: when workers concurrently insert the same unbound key k and nobody
\* removes k, exactly one insert returns absent; every other insert of k
\* returns the value that one stored; and the table binds k to that value.
InsertRace ==
  /\ [](\A k \in Keys : winner[k] # None => Contents[k] = winner[k])
  /\ [][\A w \in Workers :
          InsertReturns(w) =>
            LET k == op[w].key
            IN  IF res'[w] = None
                THEN winner[k] = None /\ Contents'[k] = op[w].val
                ELSE res'[w] = winner[k] /\ Contents'[k] = winner[k]]_vars

\* w1 found k unbound and built its entry, w2 won the race for k meanwhile,
\* so w1's CAS is bound to fail
RaceLost ==
  /\ pc["w1"] = "cas"
  /\ nops["w1"] = 1
  /\ winner[op["w1"].key] = InsVal("w2")
  /\ pc["w2"] = "done"
  /\ res["w2"] = None

RECURSIVE SumUpTo(_, _)
SumUpTo(m, n) == IF n = 0 THEN 0 ELSE m[n] + SumUpTo(m, n - 1)

\* the sum of the values bound in the table (an unbound key counts 0)
SumVals == SumUpTo([key \in AllKeys |-> IF Contents[key] = None THEN 0
                                        ELSE Contents[key]], MaxKey + 1)

\* C7: when the workers together complete M upserts whose f adds one to the
\* stored count (absent counting as 0), with no removes, the values stored in
\* the table sum to M once all the calls have returned: no update is lost or
\* applied twice.
UpsertSum ==
  Quiescent => SumVals = nops["w1"] + nops["w2"]

\* every worker has used up its quota and all the upserts went to key 1
AllUpserted ==
  /\ Quiescent
  /\ \A w \in Workers : nops[w] = Quota(w)
  /\ Contents[1] = MaxOps + (MaxOps - 1)

\* C8: when a run of find, insert and remove has finished, size() is the
\* size before the run (0) plus the inserts that returned absent minus the
\* removes that returned a value, and every key inserted and not removed is
\* found.
SizeAtRest ==
  Quiescent =>
    /\ TableCount = added - removed
    /\ TableCount = Cardinality(Bound(Contents))
    /\ \A k \in Keys : ref[k] # None => Contents[k] = ref[k]

\* both keys were inserted, the table grew, and one key was removed again
GrownAndShrunk ==
  /\ Quiescent
  /\ added = MaxKey
  /\ removed = 1
  /\ current > 1
  /\ TableCount = MaxKey - 1

\* a step of the migration: the next table is published, a bucket is claimed,
\* copied or forwarded, or the tables are swapped
MigrationStep ==
  \/ next' # next
  \/ \E w \in Workers : pc[w] \in {"claim", "copy", "forward"} /\ pc'[w] # pc[w]

\* C9: growing the table never changes what it holds. Before, during and
\* after a migration every key inserted and not removed is found with its
\* current value and no other key is found; the steps of the migration change
\* neither the mapping nor the number of entries. This holds for a table that
\* starts with capacity 1 and grows more than once under concurrent inserts.
MigrationTransparent ==
  /\ [](Contents = ref)
  /\ [][MigrationStep => Contents' = Contents /\ TableCount' = TableCount]_vars

\* the table of capacity 1 has grown twice and holds three keys
GrownTwice ==
  /\ cap0 = 1
  /\ TableSize(current) = 4
  /\ Cardinality(Bound(Contents)) = MaxKey + 1

\* the cells and the bucket array worker w may still dereference
HeldList(w) == IF pc[w] \in {"walk", "cas", "claim", "copy", "forward"} THEN old[w] ELSE 0

HeldPair(w) ==
  IF pc[w] = "cas" /\ at[w] # 0 /\ old[w] # 0 /\ at[w] <= Len(ListAt(old[w]))
  THEN get_ptr(ListAt(old[w])[at[w]]) ELSE 0

\* C10: no worker between enter and exit holds a pointer, read from the
\* table inside that critical section, to an object that has been destroyed:
\* what was retired while the worker was inside is destroyed only after the
\* worker has left.
NoUseAfterFree ==
  \A w \in Workers :
    announce[w] # -1 =>
      /\ HeldList(w) # 0 => heap[HeldList(w)].st # "free"
                            /\ heap[HeldList(w)].kind = "list"
      /\ HeldPair(w) # 0 => heap[HeldPair(w)].st # "free"
      /\ tbl[w] # 0 => tables[tbl[w]].st # "freed"

\* w1 is about to replace an entry that w2 has meanwhile retired, after the
\* epoch has advanced past the one w1 announced
HoldsRetired ==
  /\ announce["w1"] # -1
  /\ epoch > announce["w1"]
  /\ HeldPair("w1") # 0
  /\ heap[HeldPair("w1")].st = "retired"
  /\ heap[HeldList("w1")].st = "retired"

\* a cell or a bucket array is destroyed in this step
DestroysCell(c) == heap[c].st = "retired" /\ heap'[c].st # "retired"

DestroysTable(gen) == tables[gen].st = "retired" /\ tables'[gen].st # "retired"

\* C11: an object retired while the global epoch is E is not destroyed before
\* the global epoch is at least E + 2; the global epoch never decreases, and
\* it advances from E (by one) only when every active worker has announced E.
EpochRule ==
  [][/\ \A c \in Cells :
          /\ heap[c].st = "live" /\ heap'[c].st # "live" =>
               heap'[c].st = "retired" /\ heap'[c].ep = epoch
          /\ DestroysCell(c) => heap[c].ep + 2 <= epoch
     /\ \A gen \in Gens :
          /\ tables[gen].st = "live" /\ tables'[gen].st # "live" =>
               tables'[gen].st = "retired" /\ tables'[gen].ep = epoch
          /\ DestroysTable(gen) => tables[gen].ep + 2 <= epoch
     /\ epoch' >= epoch
     /\ epoch' # epoch =>
          /\ epoch' = epoch + 1
          /\ \A w \in Workers : announce[w] \in {-1, epoch}]_vars

\* a cell has been destroyed (a free cell below a used one was in use before),
\* the epoch has advanced at least twice, and a worker is active in the
\* current epoch beside an object retired in it
DestroyedAfterTwo ==
  /\ epoch >= 2
  /\ \E c, d \in Cells : c < d /\ heap[c].st = "free" /\ heap[d].st # "free"
  /\ \E w \in Workers : announce[w] = epoch
  /\ \E c \in Cells : heap[c].st = "retired" /\ heap[c].ep = epoch

\* the final clear() has returned
Cleared == kinds = {} /\ Quiescent

\* the pool is drained: the epoch went two past every retirement and the pool
\* destroyed what it then could, so nothing retired is left
PoolDrained == \A c \in Cells : heap[c].st # "retired"

LiveGens == {current, next} \ {0}

\* the keys on the list a bucket word points to, position by position
KeysOn(word) ==
  [n \in 1..Len(ListAt(word.ptr)) |-> PairAt(ListAt(word.ptr)[n].ptr)[1]]

\* the buckets of the arrays in use that hold key on their list
BucketsWith(key) ==
  {gi \in LiveGens \X (0..(TableSize(MaxGen) - 1)) :
     /\ gi[2] \in DOMAIN buckets[gi[1]]
     /\ \E n \in DOMAIN KeysOn(buckets[gi[1]][gi[2]]) :
          KeysOn(buckets[gi[1]][gi[2]])[n] = key}

\* C13: in every reachable state each published bucket list holds at most
\* one entry per key, and whenever no operation is in flight no key is on the
\* lists of two buckets of the current and next tables, whatever the
\* interleaving of inserts, upserts, removes and migration steps before.
KeysUnique ==
  /\ \A gen \in LiveGens : \A i \in DOMAIN buckets[gen] :
       \A m, n \in DOMAIN KeysOn(buckets[gen][i]) :
         KeysOn(buckets[gen][i])[m] = KeysOn(buckets[gen][i])[n] => m = n
  /\ Quiescent => \A key \in AllKeys : Cardinality(BucketsWith(key)) <= 1

\* nothing is in flight in the middle of a migration: the old bucket is
\* Forwarded, the tables are not swapped yet and both keys are in the new one
AtRestMidMigration ==
  /\ Quiescent
  /\ next # 0
  /\ \A key \in Keys : Cardinality(BucketsWith(key)) = 1
  /\ \A w \in Workers : nops[w] = Quota(w)

\* the bucket that accepts updates for the keys hashing to bucket i of array
\* gen: the old bucket while it is Stable, the new one once the old one is
\* Forwarded
Authoritative(gen, i) ==
  /\ gen \in LiveGens
  /\ buckets[gen][i].st = "Stable"
  /\ gen = next => buckets[current][i % TableSize(current)].st = "Forwarded"

\* worker w's update CAS succeeds in this step
Updates(w) == pc[w] = "cas" /\ pc'[w] = "done"

ClearReturns == pc["w1"] = "clear" /\ pc'["w1"] = "done"

\* C15: clear() called with no operation in flight leaves size() = 0 and
\* every key absent, and hands every entry and every bucket list that was in
\* the table to the epoch pool: each is retired in that call, none is
\* destroyed by it and none is retired a second time.
ClearContract ==
  [][ClearReturns =>
       /\ TableCount' = 0
       /\ \A key \in AllKeys : Contents'[key] = None
       /\ \A c \in Cells :
            /\ heap[c].st = "live" => heap'[c].st = "retired" /\ heap'[c].ep = epoch
            /\ heap[c].st # "live" => heap'[c] = heap[c]
       /\ ~misuse']_vars

\* a table that held two keys and had published its next table has been
\* cleared: its two pairs and its lists are retired, nothing of it is live
ClearedTwo ==
  /\ Returned("clear")
  /\ Cardinality(Bound(pre)) = 2
  /\ next # 0
  /\ TableCount = 0
  /\ Cardinality({c \in Cells : heap[c].st = "retired" /\ heap[c].kind = "pair"}) >= 2
  /\ \A c \in Cells : heap[c].st # "live"

\* C17: a size() that runs next to inserts and removes (and a migration)
\* returns the size of the map after the operations completed before it began
\* and some of those concurrent with it: at least the number of keys bound
\* from its invocation to its return (so it is never negative and misses no
\* entry inserted before and not removed), at most the number of keys bound at
\* some instant in between (so no entry is counted for the old and the new
\* table both)
SizeReturns(w) == pc[w] = "scan" /\ pc'[w] = "done"

SizeConsistent ==
  [][\A w \in Workers :
       SizeReturns(w) =>
         /\ res'[w] >= 0
         /\ Cardinality(span[w].lo) <= res'[w]
         /\ res'[w] <= Cardinality(span[w].hi)]_vars

\* a size() that ran across a migration has returned 2 although no key was
\* bound all the time it ran
SizedAcrossUpdates ==
  /\ pc["w2"] = "done"
  /\ res["w2"] = 2
  /\ span["w2"].lo = {}
  /\ Cardinality(span["w2"].hi) >= 2
  /\ current > 1

\* C18: the word of a bucket moves Stable -> Busy -> Forwarded, one step at a
\* time and never back: a Stable word is replaced by a Stable word or claimed
\* as Busy (never forwarded directly), a Busy word keeps its list until it
\* becomes Forwarded, a Forwarded word never changes; and a bucket array is
\* retired only when every one of its buckets has made the whole way
Rank(word) == CASE word.st = "Stable" -> 0
                [] word.st = "Busy" -> 1
                [] word.st = "Forwarded" -> 2

LifecycleStep(gen, i) ==
  LET word == buckets[gen][i]
      word2 == buckets'[gen][i]
  IN  /\ Rank(word) <= Rank(word2)
      /\ Rank(word2) <= Rank(word) + 1
      /\ word.st = "Busy" => (word2 = word \/ word2 = ForwardedWord)
      /\ word.st = "Forwarded" => word2 = word

BucketLifecycle ==
  /\ [](\A gen \in Gens : tables[gen].st = "retired" => AllForwarded(gen))
  /\ [][\A gen \in Gens :
          \A i \in DOMAIN buckets[gen] \cap DOMAIN buckets'[gen] :
            LifecycleStep(gen, i)]_vars

\* a migration under way in a table of two buckets: one bucket is Forwarded,
\* the other is Busy in the hands of its claimant
OneBusyOneForwarded ==
  /\ next # 0
  /\ \E i, j \in DOMAIN buckets[current] :
       /\ buckets[current][i].st = "Forwarded"
       /\ buckets[current][j].st = "Busy"

\* worker w holds the claim of bucket mb[w] of array tbl[w]
Claimant(w) == pc[w] \in {"copy", "forward"}

\* the entries of the list at p, as a bag
EntriesAt(p) == LET lst == ListAt(p) IN {<<n, lst[n]>> : n \in 1..Len(lst)}

\* the old bucket of `key` in the array before gen is Forwarded, or that array
\* is no longer the one being migrated
OldForwarded(gen, key) ==
  (next = gen /\ gen > 1) =>
    buckets[current][BucketOf(MixedHash[key], TableSize(current))].st = "Forwarded"

\* C19: of the workers that race to claim a Stable bucket of the old table one
\* wins: no two workers hold the claim of one bucket, and a claim CAS succeeds
\* only on the Stable word the worker loaded. The claimant alone copies, and
\* it copies the list that was in the bucket when it claimed it: the word
\* stays Busy with that list until the claimant forwards it. Until then no
\* worker has read a destination bucket and both are empty when the claimant
\* stores into them; once stored they hold the entries of the claimed list
ExclusiveClaim ==
  /\ [](/\ \A w, v \in Workers :
             Claimant(w) /\ Claimant(v) /\ w # v => <<tbl[w], mb[w]>> # <<tbl[v], mb[v]>>
        /\ \A w \in Workers :
             Claimant(w) =>
               /\ tbl[w] = current /\ next = current + 1
               /\ buckets[tbl[w]][mb[w]] = BusyWord(old[w])
               /\ pc[w] = "copy" =>
                    /\ buckets[next][mb[w]] = EmptyWord
                    /\ buckets[next][mb[w] + TableSize(current)] = EmptyWord
               /\ pc[w] = "forward" =>
                    Cardinality(EntriesAt(old[w])) =
                      Len(ListAt(buckets[next][mb[w]].ptr))
                      + Len(ListAt(buckets[next][mb[w] + TableSize(current)].ptr))
        /\ \A v \in Workers :
             pc[v] \in {"walk", "grow", "cas"} => OldForwarded(tbl[v], op[v].key)
        /\ \A gen \in LiveGens : \A i \in DOMAIN buckets[gen] :
             buckets[gen][i].st = "Busy" =>
               \E w \in Workers : Claimant(w) /\ tbl[w] = gen /\ mb[w] = i)
  /\ [][\A w \in Workers :
          /\ pc[w] = "claim" /\ pc'[w] = "copy" =>
               /\ buckets[tbl[w]][mb[w]] = [st |-> "Stable", ptr |-> old[w]]
               /\ \A v \in Workers \ {w} : pc'[v] # "copy"
          /\ Claimant(w) /\ pc'[w] # "load" =>
               buckets'[tbl[w]][mb[w]] = buckets[tbl[w]][mb[w]]]_vars

\* both workers have loaded the same Stable bucket and are about to CAS it to
\* Busy
ClaimRace ==
  /\ pc["w1"] = "claim" /\ pc["w2"] = "claim"
  /\ tbl["w1"] = tbl["w2"] /\ mb["w1"] = mb["w2"]
  /\ old["w1"] = old["w2"]
  /\ old["w1"] # 0

\* one worker lost the race: it is still about to CAS the bucket that the
\* other has claimed and copied
ClaimLost ==
  \E w, v \in Workers :
    /\ pc[w] = "claim" /\ pc[v] = "forward"
    /\ tbl[w] = tbl[v] /\ mb[w] = mb[v]
    /\ old[v] # 0

\* the bucket array of generation gen is handed to the epoch pool in this step
RetiresTable(gen) == tables[gen].st = "live" /\ tables'[gen].st = "retired"

\* C20: next is non-null exactly from the publication of a new table to the
\* swap, and is then the live array after current, twice its size. The swap
\* current = next; next = null happens only when every bucket of the old array
\* is Forwarded, once per migration, and it is the one step that retires the
\* old array, stamped with the epoch of the swap. A new table is published only
\* when there is none, also when several inserts have seen the overload
MigrationCompletes ==
  /\ [](/\ next # 0 =>
             /\ next = current + 1
             /\ tables[next].st = "live"
             /\ Cardinality(DOMAIN buckets[next]) = 2 * Cardinality(DOMAIN buckets[current])
        /\ tables[current].st = "live"
        /\ \A gen \in Gens :
             /\ tables[gen].st \in {"retired", "freed"} => gen < current
             /\ tables[gen].st = "live" => gen \in {current, next})
  /\ [][/\ current' # current =>
             /\ next # 0
             /\ AllForwarded(current)
             /\ current' = next
             /\ next' = 0
             /\ tables'[current] = [st |-> "retired", ep |-> epoch]
        /\ \A gen \in Gens : RetiresTable(gen) => gen = current /\ current' = next
        /\ next' # next =>
             \/ next = 0 /\ next' = current + 1 /\ current' = current
                         /\ \A i \in DOMAIN buckets'[next'] :
                              buckets'[next'][i] = EmptyWord
             \/ next' = 0 /\ current' = next]_vars

\* two inserts saw the same bucket overloaded; one has published the new table
\* and the other, still about to publish, will find next non-null
LatePublisher ==
  \E w, v \in Workers :
    /\ w # v
    /\ pc[w] = "grow" /\ tbl[w] = current
    /\ next # 0
    /\ pc[v] = "cas" /\ tbl[v] = current /\ op[v].key = op[w].key

\* every bucket that is Busy is Forwarded in the end: a Busy bucket is in the
\* hands of a claimant, the claimant lets go in the end, and it lets go by
\* publishing the bucket as Forwarded
BusyEnds ==
  /\ [](\A gen \in LiveGens : \A i \in DOMAIN buckets[gen] :
          buckets[gen][i].st = "Busy" =>
            \E w \in Workers : Claimant(w) /\ tbl[w] = gen /\ mb[w] = i)
  /\ [][\A w \in Workers :
          Claimant(w) /\ pc'[w] \notin {"copy", "forward"} =>
            buckets'[tbl[w]][mb[w]] = ForwardedWord]_vars
  /\ \A w \in Workers : Claimant(w) ~> ~Claimant(w)

\* every operation that waits on a Busy bucket goes on and returns
WaitEnds ==
  \A w \in Workers :
    (/\ pc[w] = "load"
     /\ buckets[tbl[w]][BucketOf(MixedHash[op[w].key], TableSize(tbl[w]))].st = "Busy")
      ~> pc[w] = "done"

\* a migration whose buckets are all Forwarded is completed by the swap
SwapEnds == (next # 0 /\ AllForwarded(current)) ~> next = 0

\* C21 as stated: when the claimant is scheduled fairly, a Busy bucket becomes
\* Forwarded, an operation that saw it Busy returns, and every migration that
\* was started completes with the swap
MigrationAlwaysEnds == BusyEnds /\ WaitEnds /\ (next # 0 ~> next = 0)

\* C21, amended: when the workers are scheduled fairly, a Busy bucket becomes
\* Forwarded and an operation that saw it Busy returns; a migration completes
\* once every old bucket is Forwarded, which takes operations that come by
\* and claim the buckets still Stable
BusyWaitBounded == BusyEnds /\ WaitEnds /\ SwapEnds

\* an operation is waiting: the bucket of its key is Busy in the hands of the
\* other worker
WaitsOnBusy ==
  \E w, v \in Workers :
    /\ w # v
    /\ pc[w] = "load" /\ pc[v] = "copy"
    /\ tbl[w] = tbl[v]
    /\ mb[v] = BucketOf(MixedHash[op[w].key], TableSize(tbl[w]))

\* the bucket word that worker w loaded its list from
WordOf(w) == buckets[tbl[w]][BucketOf(MixedHash[op[w].key], TableSize(tbl[w]))]

\* the same word after the step
WordNext(w) == buckets'[tbl[w]][BucketOf(MixedHash[op[w].key], TableSize(tbl[w]))]

\* worker w has loaded a list and has not yet tried its CAS
Holds(w) == pc[w] \in {"walk", "grow", "cas"}

\* worker v's claim CAS succeeds in this step
Claims(v) == pc[v] = "claim" /\ pc'[v] = "copy"

\* C22: an insert, upsert or remove goes back to its load only from a CAS
\* that found the bucket word different from the one it loaded; while a
\* worker holds a loaded word, that word is changed only by the successful
\* CAS of another worker, an update or a migration claim; and when the workers
\* are scheduled fairly every operation that was begun returns
LockFree ==
  /\ [][\A w \in Workers :
          /\ pc[w] \in {"walk", "grow", "cas"} /\ pc'[w] = "load" =>
               /\ pc[w] = "cas"
               /\ op[w].kind \in {"insert", "upsert", "remove"}
               /\ WordOf(w) # [st |-> "Stable", ptr |-> old[w]]
               /\ UNCHANGED <<tabs, ref, res>>
          /\ Holds(w) /\ WordOf(w) = [st |-> "Stable", ptr |-> old[w]]
               /\ buckets'[tbl[w]] # <<>> /\ WordNext(w) # WordOf(w) /\ ~Updates(w) =>
               \E v \in Workers \ {w} : Updates(v) \/ Claims(v)]_vars
  /\ \A w \in Workers : (pc[w] \notin {"idle", "done"}) ~> (pc[w] = "done")

\* a CAS is about to fail: the worker holds a list that another worker's
\* update has replaced since
CasWillFail ==
  \E w \in Workers :
    /\ pc[w] = "cas"
    /\ op[w].kind \in {"upsert", "remove"}
    /\ WordOf(w).st = "Stable"
    /\ WordOf(w).ptr # old[w]

\* the keys on the list of bucket i of array gen
KeysIn(gen, i) ==
  {KeysOn(buckets[gen][i])[n] : n \in DOMAIN KeysOn(buckets[gen][i])}

\* the same after the step
KeysInNext(gen, i) ==
  LET lst == heap'[buckets'[gen][i].ptr].data
  IN  IF buckets'[gen][i].ptr = 0 THEN {}
      ELSE {heap'[get_ptr(lst[n])].data[1] : n \in 1..Len(lst)}

\* the claimant w stores the two destination lists in this step
Copies(w) == pc[w] = "copy" /\ pc'[w] = "forward"

\* C23: every entry on the list of bucket i of an array of table_size buckets
\* has a key whose mixed hash is i modulo table_size; the arrays have
\* power-of-two sizes, each twice the one before; and the copy of old bucket i
\* of an array of s buckets puts each of its entries on new bucket i or i + s,
\* the one its mixed hash selects modulo 2s, and touches no other bucket
BucketPlacement ==
  /\ [](\A gen \in LiveGens :
          /\ DOMAIN buckets[gen] = 0..(TableSize(gen) - 1)
          /\ \E n \in 0..MaxGen : TableSize(gen) = Pow2(n)
          /\ gen > 1 /\ tables[gen - 1].st \in {"live", "retired"} =>
               TableSize(gen) = 2 * Cardinality(DOMAIN buckets[gen - 1])
          /\ \A i \in DOMAIN buckets[gen] : \A key \in KeysIn(gen, i) :
               BucketOf(MixedHash[key], TableSize(gen)) = i)
  /\ [][\A w \in Workers :
          Copies(w) =>
            LET s == TableSize(tbl[w])
                i == mb[w]
            IN  /\ \A key \in KeysIn(tbl[w], i) :
                     LET d == BucketOf(MixedHash[key], 2 * s)
                     IN  /\ d \in {i, i + s}
                         /\ key \in KeysInNext(next, d)
                         /\ \A j \in DOMAIN buckets'[next] \ {d} :
                              key \notin KeysInNext(next, j)
                /\ KeysInNext(next, i) \cup KeysInNext(next, i + s) = KeysIn(tbl[w], i)
                /\ \A j \in DOMAIN buckets[next] \ {i, i + s} :
                     buckets'[next][j] = buckets[next][j]]_vars

\* the claimant of bucket 1 of the array of two buckets has split its list:
\* one key stays in bucket 1 of the new array, the other went to bucket 3
SplitInTwo ==
  \E w \in Workers :
    /\ pc[w] = "forward"
    /\ TableSize(tbl[w]) = 2
    /\ KeysIn(next, mb[w]) # {}
    /\ KeysIn(next, mb[w] + 2) # {}

\* the pairs that the entries on the published lists point to
PublishedPairs ==
  UNION {UNION {{get_ptr(ListAt(buckets[gen][i].ptr)[n]) :
                   n \in 1..Len(ListAt(buckets[gen][i].ptr))} :
                i \in DOMAIN buckets[gen]} :
         gen \in LiveGens}

\* the pair in cell c is handed to the pool in this step
RetiresPair(c) ==
  /\ heap[c].kind = "pair"
  /\ heap[c].st = "live"
  /\ heap'[c].st # "live"

\* C24: the pair of an indirect entry is in the pool's hands exactly when its
\* entry has left the map. A pair that a published list points to is live, a
\* live pair is pointed to by a published list, and no pair is retired twice;
\* the step that retires a published pair is the successful CAS of a remove
\* or of an upsert of its key, or clear, and the step retires it and does not
\* destroy it. An insert, an update of another key and a migration replace
\* lists and leave every published pair live
PairsRetiredOnLeave ==
  /\ [](/\ ~misuse
        /\ \A c \in Cells :
             heap[c].kind = "pair" /\ heap[c].st = "live" <=> c \in PublishedPairs)
  /\ [][\A c \in Cells :
          RetiresPair(c) =>
            /\ heap'[c] = [heap[c] EXCEPT !.st = "retired", !.ep = epoch]
            /\ \E w \in Workers :
                 \/ /\ Updates(w)
                    /\ op[w].kind \in {"remove", "upsert"}
                    /\ op[w].key = heap[c].data[1]
                    /\ res'[w] = heap[c].data[2]
                 \/ pc[w] = "clear" /\ pc'[w] = "done"]_vars

\* an upsert has replaced the pair of its key: the old pair is retired, the
\* new one is published, and the migration under way has left both alone
PairReplaced ==
  /\ next # 0
  /\ \E c \in Cells, d \in PublishedPairs :
       /\ heap[c].kind = "pair" /\ heap[c].st = "retired"
       /\ heap[d].data[1] = heap[c].data[1]
       /\ heap[d].data[2] # heap[c].data[2]

\* C25: the pointer word built from a mixed hash and a pointer below 2^48
\* gives the pointer back under get_ptr and carries the top 16 bits of the
\* hash; equal(k) answers true exactly when the stored key is the key probed
\* for, so a tag mismatch rejects unequal keys only and an equal key is never
\* missed; and the pair is read exactly when the tags match
TaggedProbe ==
  /\ probe.at \in {"built", "probed"} =>
       /\ get_ptr_bits(probe.ptr) = probe.data
       /\ Shr48(probe.ptr) = Shr48(hash(probe.stored))
  /\ probe.at = "probed" =>
       /\ probe.got = probe.data
       /\ probe.eq <=> (probe.stored.first = probe.k.first)
       /\ probe.read <=> (Shr48(hash(probe.k)) = Shr48(hash(probe.stored)))
       /\ probe.stored.first = probe.k.first => probe.read
       /\ probe.eq => probe.read

\* a probe for another key whose hash has the same top 16 bits: the tags
\* match, the pair at the highest 48-bit address is read, and the keys differ
TagCollision ==
  /\ probe.at = "probed"
  /\ probe.data = Low48(AllOnes)
  /\ Shr48(hash(probe.stored)) # ToWord(0)
  /\ hash(probe.stored) # hash(probe.k)
  /\ probe.read
  /\ ~probe.eq

====
